---- MODULE Spec2Model ----
(***************************************************************************)
(* Model of the HTEX Interchange event loop                                *)
(* (parsl/executors/high_throughput/interchange.py).                       *)
(*                                                                         *)
(* One action per step of the loop body of Interchange.start: the poll,    *)
(* process_command, process_task_incoming, process_manager_socket_message  *)
(* (one action per kind of frame), expire_bad_managers,                    *)
(* expire_drained_managers and process_tasks_to_send, which ends with the  *)
(* test of the loop condition.  pc is the step about to run, "exited" once *)
(* the loop has ended and "crashed" once an exception has left a handler.  *)
(* The wall clock (time.time()) is the variable now, advanced by Tick.     *)
(* results_outgoing is the bag of the frames sent to the client so far;    *)
(* manager_sock_sent and reply are what the step just taken sent on        *)
(* manager_sock and on command_channel.  Fields of a record that the loop  *)
(* never reads (start_time) are left out.                                  *)
(***************************************************************************)
EXTENDS Integers, Sequences, FiniteSets, Bags, TLC

VARIABLES pc, load, kill_event, monitoring_radio, pending_task_queue,
          task_counter, count, ready_managers, connected_block_history,
          interesting_managers, now, results_outgoing, manager_sock_sent,
          reply, last_command, this_iteration

vars == <<pc, load, kill_event, monitoring_radio, pending_task_queue,
          task_counter, count, ready_managers, connected_block_history,
          interesting_managers, now, results_outgoing, manager_sock_sent,
          reply, last_command, this_iteration>>

(***************************************************************************)
(* Bounds of the model.                                                    *)
(***************************************************************************)
\* tasks the client submits in a fleet run
MaxTasks == 2
\* tasks the client submits in a queue run
MaxQueueTasks == 3
\* largest max_capacity a manager registers with
MaxCapacity == 2
\* last instant of the wall clock
MaxTime == 1
\* accepted registrations in one run
MaxRegistrations == 2
\* tasks the client submits in a run that watches the command channel
MaxClientTasks == 1
\* sub-messages in one result batch
MaxBatch == 2

(***************************************************************************)
(* Configuration and inputs.                                               *)
(***************************************************************************)
\* heartbeat_threshold, a constructor argument (seconds)
heartbeat_threshold == 0
\* the port bound for worker connections
worker_port == 54000

ManagerIds == {"m1", "m2"}
BlockIds == {"b1"}
MoreBlockIds == {"b1", "b2"}
Priorities == {1, 5}

\* current_platform: python_v as its dot-separated components
IxPythonV == <<3, 12, 7>>
IxParslV == "2024.01.01"
PythonVersions == {<<3, 12, 1>>, <<3, 11, 7>>}
ParslVersions == {"2024.01.01", "2023.01.01"}

\* the Python value None where an instant is expected
NoneTime == -1

\* (2 ** 32) - 1 and (2 ** 32) - 2, as their decimal digits
HEARTBEAT_CODE == "4294967295"
DRAINED_CODE == "4294967294"

PKL_HEARTBEAT_CODE == [pickled |-> "int", int |-> HEARTBEAT_CODE, list |-> <<>>]
PKL_DRAINED_CODE == [pickled |-> "int", int |-> DRAINED_CODE, list |-> <<>>]
PickleTasks(tasks) == [pickled |-> "list", int |-> "", list |-> tasks]

(***************************************************************************)
(* Python floats: <<class, value>> with class -1 for -inf, 0 for a finite  *)
(* number, 1 for +inf.                                                     *)
(***************************************************************************)
Finite(n) == <<0, n>>
PosInf == <<1, 0>>
FloatNeg(f) == <<-f[1], -f[2]>>
FloatLess(a, b) == a[1] < b[1] \/ (a[1] = b[1] /\ a[2] < b[2])

\* dict.get(key, default) on a dict held as a set of <<key, value>> pairs
DictGet(d, key, default) ==
    IF \E kv \in d : kv[1] = key
    THEN (CHOOSE kv \in d : kv[1] = key)[2]
    ELSE default

(***************************************************************************)
(* pending_task_queue: SortedList(key=lambda tup: (tup[0], tup[1])), held  *)
(* as the ascending sequence of its entries.                               *)
(***************************************************************************)
KeyLess(e1, e2) ==
    FloatLess(e1[1], e2[1]) \/ (e1[1] = e2[1] /\ e1[2] < e2[2])

\* SortedList.add: insert to the right of the entries whose key is <= e's
SortedListAdd(q, e) ==
    LET k == Cardinality({i \in 1..Len(q) : ~KeyLess(e, q[i])})
    IN  SubSeq(q, 1, k) \o <<e>> \o SubSeq(q, k + 1, Len(q))

\* a slip: the priority is not negated
QueueEntryPriorityKept(msg, counter) ==
    <<DictGet(msg.resource_spec, "priority", PosInf), -counter, msg>>

\* a slip: the arrival counter is not negated
QueueEntryCounterKept(msg, counter) ==
    <<FloatNeg(DictGet(msg.resource_spec, "priority", PosInf)), counter, msg>>

\* a slip: a task without priority gets priority 0
QueueEntryDefaultZero(msg, counter) ==
    <<FloatNeg(DictGet(msg.resource_spec, "priority", Finite(0))), -counter, msg>>

\* the entry process_task_incoming builds for msg
QueueEntry(msg, counter) ==
    LET resource_spec == msg.resource_spec
        priority == DictGet(resource_spec, "priority", PosInf)
    IN  <<FloatNeg(priority), -counter, msg>>

RECURSIVE GetTasksLoop(_, _, _)
GetTasksLoop(q, n, tasks) ==
    IF n <= 0 \/ Len(q) = 0
    THEN [tasks |-> tasks, queue |-> q]
    ELSE GetTasksLoop(SubSeq(q, 1, Len(q) - 1), n - 1,
                      Append(tasks, q[Len(q)][3]))

\* a slip: the whole queue is popped, whatever count
get_tasksIgnoringCount(q, n) == GetTasksLoop(q, Len(q), <<>>)

\* get_tasks(count): pop() the greatest entry up to count times
get_tasks(q, n) == GetTasksLoop(q, n, <<>>)

(***************************************************************************)
(* Python containers.                                                      *)
(***************************************************************************)
\* d[k] = v on a dict held as a function
DictSet(d, k, v) == [x \in (DOMAIN d) \cup {k} |-> IF x = k THEN v ELSE d[x]]
\* d.pop(k, default)
DictPop(d, k) == [x \in (DOMAIN d) \ {k} |-> d[x]]
EmptyDict == [x \in {} |-> 0]

\* list.remove(x): drop the first occurrence of x (the caller checks x is there)
ListRemove(s, x) ==
    LET i == CHOOSE j \in 1..Len(s) :
                 s[j] = x /\ \A k \in 1..(j - 1) : s[k] # x
    IN  SubSeq(s, 1, i - 1) \o SubSeq(s, i + 1, Len(s))

InList(s, x) == \E j \in 1..Len(s) : s[j] = x

RECURSIVE BagOfSeq(_)
BagOfSeq(s) ==
    IF s = <<>> THEN EmptyBag ELSE SetToBag({Head(s)}) (+) BagOfSeq(Tail(s))

\* a slip: split at the first dot, keeping the major version alone
RSplitDotMajor(v) == IF Len(v) <= 1 THEN v ELSE SubSeq(v, 1, 1)

\* str.rsplit('.', 1)[0] on a version held as its components
RSplitDot(v) == IF Len(v) <= 1 THEN v ELSE SubSeq(v, 1, Len(v) - 1)

(***************************************************************************)
(* Frames.                                                                 *)
(***************************************************************************)
\* a result sub-message as a manager sends it
ResultMessage(tid) == [type |-> "result", task_id |-> tid, exception |-> <<>>]
MonitoringMessage == [type |-> "monitoring", task_id |-> 0, exception |-> <<>>]
OtherMessage == [type |-> "other", task_id |-> 0, exception |-> <<>>]

ManagerLostPackage(tid, manager_id, hostname) ==
    [type |-> "result", task_id |-> tid,
     exception |-> <<"ManagerLost", manager_id, hostname>>]

VersionMismatchPackage ==
    [type |-> "result", task_id |-> -1, exception |-> <<"VersionMismatch">>]

\* a frame sent on manager_sock
RouterFrame(manager_id, payload) == [to |-> manager_id, payload |-> payload]

(***************************************************************************)
(* Registration (process_manager_socket_message, mtype == 'registration'). *)
(***************************************************************************)
\* new_rec after new_rec.update(meta); t is time.time()
NewRecord(meta, t) ==
    [block_id |-> meta.block_id,
     tasks |-> <<>>,
     worker_count |-> meta.worker_count,
     max_capacity |-> meta.max_capacity,
     active |-> TRUE,
     draining |-> FALSE,
     last_heartbeat |-> t,
     idle_since |-> t,
     parsl_version |-> meta.parsl_v,
     python_version |-> meta.python_v,
     hostname |-> meta.hostname,
     packages |-> meta.packages]

\* the version test of the registration branch
VersionsMatch(meta) ==
    <<RSplitDot(meta.python_v), meta.parsl_v>> = <<RSplitDot(IxPythonV), IxParslV>>

\* a slip: the block of an identity that is already registered is not logged
RegistrationOncePerIdentity(s, manager_id, meta, t) ==
    IF ~VersionsMatch(meta)
    THEN [s EXCEPT !.kill = TRUE,
                   !.results = s.results (+) SetToBag({VersionMismatchPackage})]
    ELSE [s EXCEPT !.managers = DictSet(s.managers, manager_id, NewRecord(meta, t)),
                   !.history = IF manager_id \in DOMAIN s.managers
                               THEN s.history
                               ELSE Append(s.history, meta.block_id),
                   !.interesting = s.interesting \cup {manager_id}]

\* a slip: the new manager is not put in the interesting set
RegistrationNotInteresting(s, manager_id, meta, t) ==
    IF ~VersionsMatch(meta)
    THEN [s EXCEPT !.kill = TRUE,
                   !.results = s.results (+) SetToBag({VersionMismatchPackage})]
    ELSE [s EXCEPT !.managers = DictSet(s.managers, manager_id, NewRecord(meta, t)),
                   !.history = Append(s.history, meta.block_id)]

\* the state after a registration message from manager_id
Registration(s, manager_id, meta, t) ==
    IF ~VersionsMatch(meta)
    THEN [s EXCEPT !.kill = TRUE,
                   !.results = s.results (+) SetToBag({VersionMismatchPackage})]
    ELSE [s EXCEPT !.managers = DictSet(s.managers, manager_id, NewRecord(meta, t)),
                   !.history = Append(s.history, meta.block_id),
                   !.interesting = s.interesting \cup {manager_id}]

(***************************************************************************)
(* Results (process_manager_socket_message, mtype == 'result').            *)
(***************************************************************************)
\* the loop over the sub-messages of a batch; raised is set when the
\* assertion on monitoring_radio fails and the exception leaves the handler
RECURSIVE ResultLoop(_, _, _, _)
ResultLoop(tasks, msgs, to_send, radio) ==
    IF msgs = <<>>
    THEN [tasks |-> tasks, to_send |-> to_send, raised |-> FALSE]
    ELSE LET r == Head(msgs)
         IN  IF r.type = "result"
             THEN IF InList(tasks, r.task_id)
                  THEN ResultLoop(ListRemove(tasks, r.task_id), Tail(msgs),
                                  Append(to_send, r), radio)
                  ELSE ResultLoop(tasks, Tail(msgs), to_send, radio)
             ELSE IF r.type = "monitoring"
             THEN IF radio
                  THEN ResultLoop(tasks, Tail(msgs), to_send, radio)
                  ELSE [tasks |-> tasks, to_send |-> to_send, raised |-> TRUE]
             ELSE ResultLoop(tasks, Tail(msgs), to_send, radio)

\* a slip: idle_since is left as it was
IdleSinceKept(m, t) == m.idle_since

\* the record's idle_since after a batch that forwarded something
IdleSinceAfterResult(m, t) ==
    IF Len(m.tasks) = 0 /\ m.idle_since = NoneTime THEN t ELSE m.idle_since

\* a slip: the manager whose results were forwarded is not marked interesting
ResultBatchNoCredit(s, manager_id, msgs, radio, t) ==
    LET m == s.managers[manager_id]
        done == ResultLoop(m.tasks, msgs, <<>>, radio)
        m1 == [m EXCEPT !.tasks = done.tasks]
    IN  IF done.raised
        THEN [s EXCEPT !.managers = DictSet(s.managers, manager_id, m1),
                       !.raised = TRUE]
        ELSE IF done.to_send # <<>>
        THEN [s EXCEPT !.managers =
                          DictSet(s.managers, manager_id,
                                  [m1 EXCEPT !.idle_since = IdleSinceAfterResult(m1, t)]),
                       !.results = s.results (+) BagOfSeq(done.to_send)]
        ELSE [s EXCEPT !.managers = DictSet(s.managers, manager_id, m1)]

\* a slip: a result batch counts as a sign of life
ResultBatchRefreshesHeartbeat(s, manager_id, msgs, radio, t) ==
    LET m == s.managers[manager_id]
        done == ResultLoop(m.tasks, msgs, <<>>, radio)
        m1 == [m EXCEPT !.tasks = done.tasks, !.last_heartbeat = t]
    IN  IF done.raised
        THEN [s EXCEPT !.managers = DictSet(s.managers, manager_id, m1),
                       !.raised = TRUE]
        ELSE IF done.to_send # <<>>
        THEN [s EXCEPT !.managers =
                          DictSet(s.managers, manager_id,
                                  [m1 EXCEPT !.idle_since = IdleSinceAfterResult(m1, t)]),
                       !.results = s.results (+) BagOfSeq(done.to_send),
                       !.interesting = s.interesting \cup {manager_id}]
        ELSE [s EXCEPT !.managers = DictSet(s.managers, manager_id, m1)]

\* the state after a result batch msgs from the registered manager_id
ResultBatch(s, manager_id, msgs, radio, t) ==
    LET m == s.managers[manager_id]
        done == ResultLoop(m.tasks, msgs, <<>>, radio)
        m1 == [m EXCEPT !.tasks = done.tasks]
    IN  IF done.raised
        THEN [s EXCEPT !.managers = DictSet(s.managers, manager_id, m1),
                       !.raised = TRUE]
        ELSE IF done.to_send # <<>>
        THEN [s EXCEPT !.managers =
                          DictSet(s.managers, manager_id,
                                  [m1 EXCEPT !.idle_since = IdleSinceAfterResult(m1, t)]),
                       !.results = s.results (+) BagOfSeq(done.to_send),
                       !.interesting = s.interesting \cup {manager_id}]
        ELSE [s EXCEPT !.managers = DictSet(s.managers, manager_id, m1)]

\* a slip: a heartbeat puts its sender back into the interesting set
HeartbeatMarksInteresting(s, manager_id, t) ==
    [s EXCEPT !.managers = DictSet(s.managers, manager_id,
                               [s.managers[manager_id] EXCEPT !.last_heartbeat = t]),
              !.sent = Append(s.sent, RouterFrame(manager_id, PKL_HEARTBEAT_CODE)),
              !.interesting = s.interesting \cup {manager_id}]

\* mtype == 'heartbeat'
Heartbeat(s, manager_id, t) ==
    [s EXCEPT !.managers = DictSet(s.managers, manager_id,
                               [s.managers[manager_id] EXCEPT !.last_heartbeat = t]),
              !.sent = Append(s.sent, RouterFrame(manager_id, PKL_HEARTBEAT_CODE))]

\* mtype == 'drain'
Drain(s, manager_id) ==
    [s EXCEPT !.managers = DictSet(s.managers, manager_id,
                               [s.managers[manager_id] EXCEPT !.draining = TRUE])]

\* the types of message a manager sends after its registration; any other
\* type is stood for by "unexpected"
MessageTypes == {"result", "heartbeat", "drain", "unexpected"}

\* a slip: the heartbeat is answered before the sender is looked up
process_messageRepliesFirst(s, manager_id, mtype, msgs, radio, t) ==
    IF manager_id \notin DOMAIN s.managers
    THEN IF mtype = "heartbeat"
         THEN [s EXCEPT !.sent = Append(s.sent, RouterFrame(manager_id, PKL_HEARTBEAT_CODE))]
         ELSE s
    ELSE IF mtype = "result" THEN ResultBatch(s, manager_id, msgs, radio, t)
    ELSE IF mtype = "heartbeat" THEN Heartbeat(s, manager_id, t)
    ELSE IF mtype = "drain" THEN Drain(s, manager_id)
    ELSE s

\* process_manager_socket_message past the registration branch: the sender
\* is looked up, then the message is handled by its type
process_message(s, manager_id, mtype, msgs, radio, t) ==
    IF manager_id \notin DOMAIN s.managers
    THEN s
    ELSE IF mtype = "result" THEN ResultBatch(s, manager_id, msgs, radio, t)
    ELSE IF mtype = "heartbeat" THEN Heartbeat(s, manager_id, t)
    ELSE IF mtype = "drain" THEN Drain(s, manager_id)
    ELSE s

(***************************************************************************)
(* expire_bad_managers.                                                    *)
(***************************************************************************)
\* the test of the bad_managers comprehension
HeartbeatMissed(m, t) == t - m.last_heartbeat > heartbeat_threshold

\* a slip: a draining manager is left to the drained expiry
BadManagersSkipDraining(managers, t) ==
    {manager_id \in DOMAIN managers :
        HeartbeatMissed(managers[manager_id], t) /\ ~managers[manager_id].draining}

BadManagers(managers, t) ==
    {manager_id \in DOMAIN managers : HeartbeatMissed(managers[manager_id], t)}

\* the failure packages sent for the tasks of one bad manager
LostPackages(manager_id, m) ==
    BagOfSeq([i \in 1..Len(m.tasks) |->
                 ManagerLostPackage(m.tasks[i], manager_id, m.hostname)])

RECURSIVE LostPackagesOf(_, _)
LostPackagesOf(ids, managers) ==
    IF ids = {}
    THEN EmptyBag
    ELSE LET manager_id == CHOOSE x \in ids : TRUE
         IN  LostPackages(manager_id, managers[manager_id])
                 (+) LostPackagesOf(ids \ {manager_id}, managers)

\* a slip: the failure reports are sent but the manager stays registered
ExpireBadKeepsRecord(s, t) ==
    LET bad == BadManagers(s.managers, t)
    IN  [s EXCEPT !.results = s.results (+) LostPackagesOf(bad, s.managers)]

\* a slip: the manager is unregistered but stays in interesting_managers
ExpireBadKeepsInteresting(s, t) ==
    LET bad == BadManagers(s.managers, t)
    IN  [s EXCEPT !.results = s.results (+) LostPackagesOf(bad, s.managers),
                  !.managers = [x \in (DOMAIN s.managers) \ bad |-> s.managers[x]]]

\* the state after expire_bad_managers at time t
ExpireBad(s, t) ==
    LET bad == BadManagers(s.managers, t)
    IN  [s EXCEPT !.results = s.results (+) LostPackagesOf(bad, s.managers),
                  !.managers = [x \in (DOMAIN s.managers) \ bad |-> s.managers[x]],
                  !.interesting = s.interesting \ bad]

(***************************************************************************)
(* expire_drained_managers.                                                *)
(***************************************************************************)
\* a slip: the test forgets the tasks still out
IsDrainedIgnoringTasks(m) == m.draining

\* the test made on each interesting manager
IsDrained(m) == m.draining /\ Len(m.tasks) = 0

\* a slip: the drained manager leaves the registry but not the interesting set
RECURSIVE ExpireDrainedLoopKeepsInteresting(_, _)
ExpireDrainedLoopKeepsInteresting(ids, s) ==
    IF ids = <<>>
    THEN s
    ELSE LET manager_id == Head(ids)
         IN  IF manager_id \notin DOMAIN s.managers
             THEN [s EXCEPT !.raised = TRUE]
             ELSE IF IsDrained(s.managers[manager_id])
             THEN ExpireDrainedLoopKeepsInteresting(Tail(ids),
                      [s EXCEPT !.sent = Append(s.sent,
                                             RouterFrame(manager_id, PKL_DRAINED_CODE)),
                                !.managers = DictPop(s.managers, manager_id)])
             ELSE ExpireDrainedLoopKeepsInteresting(Tail(ids), s)

\* the loop over list(interesting_managers), in the order given by ids;
\* a lookup of an identity missing from _ready_managers raises KeyError
RECURSIVE ExpireDrainedLoop(_, _)
ExpireDrainedLoop(ids, s) ==
    IF ids = <<>>
    THEN s
    ELSE LET manager_id == Head(ids)
         IN  IF manager_id \notin DOMAIN s.managers
             THEN [s EXCEPT !.raised = TRUE]
             ELSE IF IsDrained(s.managers[manager_id])
             THEN ExpireDrainedLoop(Tail(ids),
                      [s EXCEPT !.sent = Append(s.sent,
                                             RouterFrame(manager_id, PKL_DRAINED_CODE)),
                                !.interesting = s.interesting \ {manager_id},
                                !.managers = DictPop(s.managers, manager_id)])
             ELSE ExpireDrainedLoop(Tail(ids), s)

(***************************************************************************)
(* process_tasks_to_send.                                                  *)
(***************************************************************************)
\* a slip: the guard forgets that a manager may be held
CanTakeHeld(m, real_capacity) == real_capacity # 0 /\ ~m.draining

\* the guard of the dispatch branch: real_capacity is tested for truth
CanTake(m, real_capacity) == real_capacity # 0 /\ m.active /\ ~m.draining

\* the record after tasks were sent to it
RecordAfterSend(m, tasks) ==
    [m EXCEPT !.tasks = m.tasks \o [i \in 1..Len(tasks) |-> tasks[i].task_id],
              !.idle_since = NoneTime]

\* the while loop over shuffled_managers, a stack popped from its end
RECURSIVE SendLoop(_, _)
SendLoop(shuffled_managers, s) ==
    IF shuffled_managers = <<>> \/ s.queue = <<>>
    THEN s
    ELSE LET n == Len(shuffled_managers)
             manager_id == shuffled_managers[n]
             rest == SubSeq(shuffled_managers, 1, n - 1)
             m == s.managers[manager_id]
             tasks_inflight == Len(m.tasks)
             real_capacity == m.max_capacity - tasks_inflight
         IN  IF CanTake(m, real_capacity)
             THEN LET got == get_tasks(s.queue, real_capacity)
                      tasks == got.tasks
                  IN  IF tasks # <<>>
                      THEN SendLoop(rest,
                             [s EXCEPT
                                !.queue = got.queue,
                                !.sent = Append(s.sent,
                                             RouterFrame(manager_id, PickleTasks(tasks))),
                                !.count = s.count + Len(tasks),
                                !.managers = DictSet(s.managers, manager_id,
                                                     RecordAfterSend(m, tasks)),
                                !.interesting =
                                    IF real_capacity - Len(tasks) > 0
                                    THEN s.interesting
                                    ELSE s.interesting \ {manager_id}])
                      ELSE SendLoop(rest, s)
             ELSE SendLoop(rest, [s EXCEPT !.interesting = s.interesting \ {manager_id}])

\* the orders in which a set can be listed
Orders(S) ==
    {f \in [1..Cardinality(S) -> S] : \A i, j \in 1..Cardinality(S) : i # j => f[i] # f[j]}

\* manager_selector.sort_managers: some order of the interesting managers
sort_managers(managers, interesting) == Orders(interesting)

(***************************************************************************)
(* process_command.                                                        *)
(***************************************************************************)
\* a command request as its ';'-separated parts
Commands ==
    {<<"CONNECTED_BLOCKS">>, <<"WORKERS">>, <<"MANAGERS">>, <<"MANAGERS_PACKAGES">>,
     <<"WORKER_BINDS">>, <<"NO_SUCH_COMMAND">>}
    \cup {<<"HOLD_WORKER", manager_id>> : manager_id \in ManagerIds}

\* nothing was sent on command_channel in this step
NoReply == <<"nothing">>
PyNone == <<"None">>

RECURSIVE SumWorkers(_, _)
SumWorkers(ids, managers) ==
    IF ids = {}
    THEN 0
    ELSE LET manager_id == CHOOSE x \in ids : TRUE
         IN  managers[manager_id].worker_count + SumWorkers(ids \ {manager_id}, managers)

\* one entry of the MANAGERS reply
ManagerResp(manager_id, m, t) ==
    [manager |-> manager_id,
     block_id |-> m.block_id,
     worker_count |-> m.worker_count,
     tasks |-> Len(m.tasks),
     idle_duration |-> IF m.idle_since # NoneTime THEN t - m.idle_since ELSE 0,
     active |-> m.active,
     parsl_version |-> m.parsl_version,
     python_version |-> m.python_version,
     draining |-> m.draining]

\* the reply to command_req; the MANAGERS list is held as the set of its entries
CommandReply(command_req, managers, history, t) ==
    IF command_req = <<"CONNECTED_BLOCKS">> THEN <<"list", history>>
    ELSE IF command_req = <<"WORKERS">> THEN <<"int", SumWorkers(DOMAIN managers, managers)>>
    ELSE IF command_req = <<"MANAGERS">>
    THEN <<"managers", {ManagerResp(manager_id, managers[manager_id], t) :
                            manager_id \in DOMAIN managers}>>
    ELSE IF command_req = <<"MANAGERS_PACKAGES">>
    THEN <<"dict", [manager_id \in DOMAIN managers |-> managers[manager_id].packages]>>
    ELSE IF command_req[1] = "HOLD_WORKER" THEN PyNone
    ELSE IF command_req = <<"WORKER_BINDS">> THEN <<"int", worker_port>>
    ELSE PyNone

\* a slip: MANAGERS restarts the idle time of the managers it reports
CommandEffectResetsIdle(command_req, managers) ==
    IF command_req[1] = "HOLD_WORKER" /\ command_req[2] \in DOMAIN managers
    THEN DictSet(managers, command_req[2],
                 [managers[command_req[2]] EXCEPT !.active = FALSE])
    ELSE IF command_req = <<"MANAGERS">>
    THEN [manager_id \in DOMAIN managers |->
             [managers[manager_id] EXCEPT !.idle_since = NoneTime]]
    ELSE managers

\* a slip: the held manager is put to draining as well
CommandEffectHoldDrains(command_req, managers) ==
    IF command_req[1] = "HOLD_WORKER" /\ command_req[2] \in DOMAIN managers
    THEN DictSet(managers, command_req[2],
                 [managers[command_req[2]] EXCEPT !.active = FALSE, !.draining = TRUE])
    ELSE managers

\* the registry after command_req
CommandEffect(command_req, managers) ==
    IF command_req[1] = "HOLD_WORKER" /\ command_req[2] \in DOMAIN managers
    THEN DictSet(managers, command_req[2],
                 [managers[command_req[2]] EXCEPT !.active = FALSE])
    ELSE managers

(***************************************************************************)
(* The state machine.                                                      *)
(***************************************************************************)
(***************************************************************************)
(* What the peers of a run may send: the fleet load exercises the manager  *)
(* lifecycle (two identities, the clock running), the queue load the       *)
(* ordering of the pending queue (three tasks with and without priority,   *)
(* one identity).                                                          *)
(***************************************************************************)
\* resource_spec of a task: without and with a priority
ResourceSpecs(priorities) ==
    {{}} \cup {{<<"priority", Finite(p)>>} : p \in priorities}

FleetLoad ==
    [max_tasks |-> MaxTasks, resource_specs |-> {{}}, manager_ids |-> ManagerIds,
     block_ids |-> BlockIds, capacities |-> 0..MaxCapacity,
     client_remembers |-> FALSE, iteration_noted |-> FALSE]

QueueLoad ==
    [max_tasks |-> MaxQueueTasks, resource_specs |-> ResourceSpecs(Priorities),
     manager_ids |-> {"m1"}, block_ids |-> BlockIds, capacities |-> 1..MaxCapacity,
     client_remembers |-> FALSE, iteration_noted |-> FALSE]

\* a run with few tasks, whose managers come from two blocks
BlockLoad ==
    [max_tasks |-> MaxClientTasks, resource_specs |-> {{}}, manager_ids |-> ManagerIds,
     block_ids |-> MoreBlockIds, capacities |-> {MaxClientTasks},
     client_remembers |-> FALSE, iteration_noted |-> FALSE]

\* a run with few tasks, whose client holds on to the replies to its commands
ClientLoad ==
    [max_tasks |-> MaxClientTasks, resource_specs |-> {{}}, manager_ids |-> ManagerIds,
     block_ids |-> BlockIds, capacities |-> {MaxClientTasks},
     client_remembers |-> TRUE, iteration_noted |-> FALSE]

\* the fleet load, in a run where what happened in the iteration is noted
CreditLoad ==
    [max_tasks |-> MaxTasks, resource_specs |-> {{}}, manager_ids |-> ManagerIds,
     block_ids |-> BlockIds, capacities |-> 0..MaxCapacity,
     client_remembers |-> FALSE, iteration_noted |-> TRUE]

\* the task messages the client may send next: task_ids are unique per run
TaskMessages ==
    {[task_id |-> task_counter + 1, resource_spec |-> rs] :
        rs \in load.resource_specs}

RegistrationMetas ==
    {[python_v |-> py, parsl_v |-> pv, block_id |-> b, worker_count |-> c,
      max_capacity |-> c, hostname |-> "host", packages |-> "pkgs"] :
        py \in PythonVersions, pv \in ParslVersions, b \in load.block_ids,
        c \in load.capacities}

SubMessages ==
    {ResultMessage(tid) : tid \in 1..load.max_tasks}
        \cup {MonitoringMessage, OtherMessage}

ResultBatches == UNION {[1..n -> SubMessages] : n \in 0..MaxBatch}

\* what the client holds of its last request: the request, the reply to it,
\* the reading of the clock when it was served, and whether it repeated the
\* request before it; the client forgets it when the registry, the queue or
\* the block history changes
NoCommand == [req |-> <<>>, reply |-> NoReply, at |-> 0, again |-> FALSE]

ClientKeeps ==
    last_command' =
        IF <<ready_managers', pending_task_queue', connected_block_history'>>
               = <<ready_managers, pending_task_queue, connected_block_history>>
        THEN last_command
        ELSE NoCommand

ClientNotes(command_req) ==
    last_command' =
        IF load.client_remembers /\ ready_managers' = ready_managers
        THEN [req |-> command_req, reply |-> reply', at |-> now,
              again |-> last_command.req = command_req]
        ELSE NoCommand

\* what is noted of the iteration under way: the task_id taken in by its
\* process_task_incoming (0 when none), and the managers that were saturated,
\* active and not draining when a result batch of theirs took a task off
\* their record
NoIteration == [took |-> 0, credited |-> {}]

IterationTook(task_id) ==
    this_iteration' =
        IF load.iteration_noted
        THEN [this_iteration EXCEPT !.took = task_id]
        ELSE this_iteration

IterationCredits(manager_id) ==
    this_iteration' =
        IF /\ load.iteration_noted
           /\ manager_id \in DOMAIN ready_managers
           /\ manager_id \in DOMAIN ready_managers'
           /\ ready_managers[manager_id].active
           /\ ~ready_managers[manager_id].draining
           /\ Len(ready_managers[manager_id].tasks)
                 = ready_managers[manager_id].max_capacity
           /\ Len(ready_managers'[manager_id].tasks)
                 < Len(ready_managers[manager_id].tasks)
        THEN [this_iteration EXCEPT !.credited = @ \cup {manager_id}]
        ELSE this_iteration

InitState ==
    /\ pc = "poll"
    /\ kill_event = FALSE
    /\ monitoring_radio \in BOOLEAN
    /\ pending_task_queue = <<>>
    /\ task_counter = 0
    /\ count = 0
    /\ ready_managers = EmptyDict
    /\ connected_block_history = <<>>
    /\ interesting_managers = {}
    /\ now = 0
    /\ results_outgoing = EmptyBag
    /\ manager_sock_sent = <<>>
    /\ reply = NoReply
    /\ last_command = NoCommand
    /\ this_iteration = NoIteration

Init == load = FleetLoad /\ InitState

\* the mutable state the handlers work on
Snap ==
    [managers |-> ready_managers, history |-> connected_block_history,
     interesting |-> interesting_managers, results |-> results_outgoing,
     kill |-> kill_event, queue |-> pending_task_queue, count |-> count,
     sent |-> <<>>, raised |-> FALSE]

\* a handler leaves the state s and control goes to next, unless it raised
Commit(s, next) ==
    /\ ready_managers' = s.managers
    /\ connected_block_history' = s.history
    /\ interesting_managers' = s.interesting
    /\ results_outgoing' = s.results
    /\ kill_event' = s.kill
    /\ pending_task_queue' = s.queue
    /\ count' = s.count
    /\ manager_sock_sent' = s.sent
    /\ pc' = IF s.raised THEN "crashed" ELSE next

\* time.time() advances
Tick ==
    /\ pc \notin {"exited", "crashed"}
    /\ now < MaxTime
    /\ now' = now + 1
    /\ UNCHANGED <<pc, load, kill_event, monitoring_radio, pending_task_queue,
                   task_counter, count, ready_managers, connected_block_history,
                   interesting_managers, results_outgoing, manager_sock_sent, reply,
                   last_command, this_iteration>>

\* self.socks = dict(poller.poll(timeout=poll_period)).  Each endpoint's entry
\* of socks is read once, by its own handler; what poll found there is drawn
\* when that handler runs (the Idle action of a handler: not readable).
Poll ==
    /\ pc = "poll"
    /\ Commit(Snap, "command")
    /\ reply' = NoReply
    /\ ClientKeeps
    /\ this_iteration' = NoIteration
    /\ UNCHANGED <<load, monitoring_radio, task_counter, now>>

ProcessCommandIdle ==
    /\ pc = "command"
    /\ Commit(Snap, "task_incoming")
    /\ reply' = NoReply
    /\ ClientKeeps
    /\ UNCHANGED <<load, monitoring_radio, task_counter, now, this_iteration>>

\* process_command with the request command_req read from command_channel
CommandStep(command_req) ==
    /\ pc = "command"
    /\ Commit([Snap EXCEPT !.managers = CommandEffect(command_req, ready_managers)],
              "task_incoming")
    /\ reply' = CommandReply(command_req, ready_managers, connected_block_history, now)
    /\ ClientNotes(command_req)
    /\ UNCHANGED <<load, monitoring_radio, task_counter, now, this_iteration>>

ProcessCommand == \E command_req \in Commands : CommandStep(command_req)

ProcessTaskIncomingIdle ==
    /\ pc = "task_incoming"
    /\ Commit(Snap, "manager_sock")
    /\ reply' = NoReply
    /\ ClientKeeps
    /\ UNCHANGED <<load, monitoring_radio, task_counter, now, this_iteration>>

ProcessTaskIncoming ==
    /\ pc = "task_incoming"
    /\ task_counter < load.max_tasks
    /\ \E msg \in TaskMessages :
          Commit([Snap EXCEPT !.queue = SortedListAdd(pending_task_queue,
                                                      QueueEntry(msg, task_counter))],
                 "manager_sock")
    /\ task_counter' = task_counter + 1
    /\ reply' = NoReply
    /\ ClientKeeps
    /\ IterationTook(task_counter + 1)
    /\ UNCHANGED <<load, monitoring_radio, now>>

(***************************************************************************)
(* process_manager_socket_message: one action per kind of frame received.  *)
(***************************************************************************)
ManagerStepFrame ==
    /\ reply' = NoReply
    /\ ClientKeeps
    /\ UNCHANGED <<load, monitoring_radio, task_counter, now>>

\* manager_sock is not readable: return
ManagerSockIdle ==
    /\ pc = "manager_sock"
    /\ Commit(Snap, "expire_bad")
    /\ ManagerStepFrame
    /\ UNCHANGED this_iteration

\* the frame cannot be read (too few parts, bad meta): warn and return
ManagerMalformed ==
    /\ pc = "manager_sock"
    /\ Commit(Snap, "expire_bad")
    /\ ManagerStepFrame
    /\ UNCHANGED this_iteration

RegistrationStep(manager_id, meta) ==
    /\ pc = "manager_sock"
    /\ VersionsMatch(meta) => Len(connected_block_history) < MaxRegistrations
    /\ Commit(Registration(Snap, manager_id, meta, now), "expire_bad")
    /\ ManagerStepFrame
    /\ UNCHANGED this_iteration

ManagerRegistration ==
    \E manager_id \in load.manager_ids, meta \in RegistrationMetas :
        RegistrationStep(manager_id, meta)

\* a message of type mtype, with the sub-messages msgs, from manager_id
MessageStep(manager_id, mtype, msgs) ==
    /\ pc = "manager_sock"
    /\ Commit(process_message(Snap, manager_id, mtype, msgs, monitoring_radio, now),
              "expire_bad")
    /\ ManagerStepFrame
    /\ IterationCredits(manager_id)

\* the sub-messages a message of type mtype carries
MessageBodies(mtype) == IF mtype = "result" THEN ResultBatches ELSE {<<>>}

\* any other message from an identity that is not registered
UnknownManagerStep(manager_id) ==
    /\ manager_id \notin DOMAIN ready_managers
    /\ \E mtype \in MessageTypes :
          \E msgs \in MessageBodies(mtype) : MessageStep(manager_id, mtype, msgs)

ManagerUnknown == \E manager_id \in load.manager_ids : UnknownManagerStep(manager_id)

ResultStep(manager_id, msgs) ==
    /\ manager_id \in DOMAIN ready_managers
    /\ MessageStep(manager_id, "result", msgs)

ManagerResult ==
    \E manager_id \in load.manager_ids, msgs \in ResultBatches : ResultStep(manager_id, msgs)

HeartbeatStep(manager_id) ==
    /\ manager_id \in DOMAIN ready_managers
    /\ MessageStep(manager_id, "heartbeat", <<>>)

ManagerHeartbeat == \E manager_id \in load.manager_ids : HeartbeatStep(manager_id)

DrainStep(manager_id) ==
    /\ manager_id \in DOMAIN ready_managers
    /\ MessageStep(manager_id, "drain", <<>>)

ManagerDrain == \E manager_id \in load.manager_ids : DrainStep(manager_id)

\* a registered manager sends a message of a type the handler does not know
ManagerUnexpectedType ==
    \E manager_id \in load.manager_ids :
        /\ manager_id \in DOMAIN ready_managers
        /\ MessageStep(manager_id, "unexpected", <<>>)

(***************************************************************************)
(* The expiry and dispatch steps, and the loop test.                       *)
(***************************************************************************)
ExpireBadManagers ==
    /\ pc = "expire_bad"
    /\ Commit(ExpireBad(Snap, now), "expire_drained")
    /\ reply' = NoReply
    /\ ClientKeeps
    /\ UNCHANGED <<load, monitoring_radio, task_counter, now, this_iteration>>

ExpireDrainedManagers ==
    /\ pc = "expire_drained"
    /\ \E ids \in Orders(interesting_managers) :
          Commit(ExpireDrainedLoop(ids, Snap), "tasks_to_send")
    /\ reply' = NoReply
    /\ ClientKeeps
    /\ UNCHANGED <<load, monitoring_radio, task_counter, now, this_iteration>>

\* a slip: the loop goes on whatever the kill-flag
LoopTestIgnoresKill(kill) == "poll"

\* the test of `while not kill_event.is_set()`: where control goes next
LoopTest(kill) == IF kill THEN "exited" ELSE "poll"

\* process_tasks_to_send, then the loop test
ProcessTasksToSend ==
    /\ pc = "tasks_to_send"
    /\ LET after == LoopTest(kill_event)
       IN  IF interesting_managers # {} /\ pending_task_queue # <<>>
           THEN \E shuffled_managers \in sort_managers(ready_managers,
                                                       interesting_managers) :
                   Commit(SendLoop(shuffled_managers, Snap), after)
           ELSE Commit(Snap, after)
    /\ reply' = NoReply
    /\ ClientKeeps
    /\ UNCHANGED <<load, monitoring_radio, task_counter, now, this_iteration>>

LoopStep ==
    \/ Poll
    \/ ProcessCommandIdle
    \/ ProcessCommand
    \/ ProcessTaskIncomingIdle
    \/ ProcessTaskIncoming
    \/ ManagerSockIdle
    \/ ManagerMalformed
    \/ ManagerRegistration
    \/ ManagerUnknown
    \/ ManagerResult
    \/ ManagerHeartbeat
    \/ ManagerDrain
    \/ ManagerUnexpectedType
    \/ ExpireBadManagers
    \/ ExpireDrainedManagers
    \/ ProcessTasksToSend

Next == LoopStep \/ Tick

Spec == Init /\ [][Next]_vars

\* the loop is a running thread: a step that can be taken is taken
FairSpec == Spec /\ WF_vars(LoopStep)

\* a run under the queue load, short enough that the clock does not advance
QueueInit == load = QueueLoad /\ InitState

QueueSpec == QueueInit /\ [][LoopStep]_vars

\* a run under the block load
BlockInit == load = BlockLoad /\ InitState

BlockSpec == BlockInit /\ [][Next]_vars

\* a run under the client load
ClientInit == load = ClientLoad /\ InitState

ClientSpec == ClientInit /\ [][Next]_vars

\* a run under the credit load
CreditInit == load = CreditLoad /\ InitState

CreditSpec == CreditInit /\ [][Next]_vars

(***************************************************************************)
(* Properties of the pending queue (checked under QueueSpec).              *)
(***************************************************************************)
\* the tasks of the batches in sent, in the order get_tasks popped them
RECURSIVE SentTasks(_)
SentTasks(sent) ==
    IF sent = <<>>
    THEN <<>>
    ELSE (IF Head(sent).payload.pickled = "list" THEN Head(sent).payload.list ELSE <<>>)
             \o SentTasks(Tail(sent))

\* the tasks still pending
QueueTasks(q) == [i \in 1..Len(q) |-> q[i][3]]

HasPriority(task) == \E kv \in task.resource_spec : kv[1] = "priority"
\* the numeric priority of a task, +inf when it gives none
PriorityOf(task) == DictGet(task.resource_spec, "priority", PosInf)

\* a dispatch step pops the tasks popped' and leaves the tasks left' pending:
\* Ordered(x, y) holds for every popped x and every y popped later or left
PopOrder(Ordered(_, _)) ==
    pc = "tasks_to_send" =>
        LET popped == SentTasks(manager_sock_sent')
            left == QueueTasks(pending_task_queue')
        IN  \A i \in 1..Len(popped) :
               /\ \A j \in (i + 1)..Len(popped) : Ordered(popped[i], popped[j])
               /\ \A k \in 1..Len(left) : Ordered(popped[i], left[k])

Task(tid, p) == [task_id |-> tid, resource_spec |-> {<<"priority", Finite(p)>>}]

\* pending T1(prio=1), T2(prio=5), T3(prio=5) and one idle manager of
\* max_capacity 2, about to be served
ExampleState ==
    /\ pc = "tasks_to_send"
    /\ QueueTasks(pending_task_queue) \in
          {<<Task(3, 5), Task(2, 5), Task(1, 1)>>}
    /\ interesting_managers = {"m1"}
    /\ "m1" \in DOMAIN ready_managers
    /\ ready_managers["m1"].max_capacity = 2
    /\ ready_managers["m1"].tasks = <<>>
    /\ ready_managers["m1"].active
    /\ ~ready_managers["m1"].draining

BatchSent(tasks) == manager_sock_sent' = <<RouterFrame("m1", PickleTasks(tasks))>>

\* C1 as stated: of two tasks pending together the one with the strictly
\* greater numeric priority is popped first, and the example dispatches [T2, T3]
C1_GreaterPriorityFirst ==
    [][/\ PopOrder(LAMBDA x, y : ~FloatLess(PriorityOf(x), PriorityOf(y)))
       /\ ExampleState => BatchSent(<<Task(2, 5), Task(3, 5)>>)]_vars

\* C1 amended: of two tasks pending together the one with the strictly
\* smaller numeric priority is popped first (a task popped in a dispatch step
\* never has a strictly greater priority than one popped after it or left
\* pending), and the example dispatches [T1, T2]
C1_SmallerPriorityFirst ==
    [][/\ PopOrder(LAMBDA x, y : ~FloatLess(PriorityOf(y), PriorityOf(x)))
       /\ ExampleState => BatchSent(<<Task(1, 1), Task(2, 5)>>)]_vars

\* the example of C1 has been dispatched: [T1, T2] sent, T3 left pending
C1_Witness ==
    /\ manager_sock_sent = <<RouterFrame("m1", PickleTasks(<<Task(1, 1), Task(2, 5)>>))>>
    /\ QueueTasks(pending_task_queue) = <<Task(3, 5)>>

\* C2: among tasks of equal priority pending together, the one enqueued
\* first (task_ids are given in arrival order) is popped first, within a
\* batch and across batches
C2_FifoOnTies ==
    [][PopOrder(LAMBDA x, y :
                   PriorityOf(x) = PriorityOf(y) => x.task_id < y.task_id)]_vars

\* two tasks of equal priority were dispatched in one batch while a third of
\* that priority, enqueued between them and the batch, stays pending
C2_Witness ==
    \E i \in 1..Len(manager_sock_sent) :
        LET payload == manager_sock_sent[i].payload
        IN  /\ payload.pickled = "list"
            /\ Len(payload.list) = 2
            /\ PriorityOf(payload.list[1]) = PriorityOf(payload.list[2])
            /\ payload.list[1].task_id < payload.list[2].task_id
            /\ Len(pending_task_queue) = 1
            /\ PriorityOf(pending_task_queue[1][3]) = PriorityOf(payload.list[1])

\* C3: a task without resource_spec.priority is popped only after every task
\* with an explicit priority that is pending with it
C3_DefaultPriorityLast ==
    [][PopOrder(LAMBDA x, y : ~HasPriority(x) => ~HasPriority(y))]_vars

\* a task with an explicit priority that arrived after one without was
\* dispatched, and the one without is still pending
C3_Witness ==
    /\ Len(pending_task_queue) >= 1
    /\ ~HasPriority(pending_task_queue[Len(pending_task_queue)][3])
    /\ \E i \in 1..Len(manager_sock_sent) :
          LET payload == manager_sock_sent[i].payload
          IN  /\ payload.pickled = "list"
              /\ \E j \in 1..Len(payload.list) :
                    /\ HasPriority(payload.list[j])
                    /\ payload.list[j].task_id >
                           pending_task_queue[Len(pending_task_queue)][3].task_id

(***************************************************************************)
(* Properties of the manager registry (checked under Spec and FairSpec).   *)
(***************************************************************************)
Registered == DOMAIN ready_managers

\* the task_ids that left the pending queue: those get_tasks popped
Dispatched ==
    {tid \in 1..task_counter :
        \A i \in 1..Len(pending_task_queue) : pending_task_queue[i][3].task_id # tid}

Outstanding(tid) ==
    \E manager_id \in Registered : InList(ready_managers[manager_id].tasks, tid)

\* the frames of the bag b that are about task tid, as a bag
FramesOf(b, tid) ==
    [frame \in {f \in BagToSet(b) : f.task_id = tid} |-> b[frame]]

\* how many outcomes (forwarded results, ManagerLost failures) were sent for tid
Outcomes(tid) == BagCardinality(FramesOf(results_outgoing, tid))

\* C4: every record of the registry holds at most max_capacity tasks
C4_CapacitySafety ==
    \A manager_id \in Registered :
        Len(ready_managers[manager_id].tasks) <= ready_managers[manager_id].max_capacity

\* a manager that can still be served is full while a task stays pending
C4_Witness ==
    /\ pending_task_queue # <<>>
    /\ \E manager_id \in Registered :
          LET m == ready_managers[manager_id]
          IN  /\ m.active /\ ~m.draining
              /\ m.max_capacity >= 1
              /\ Len(m.tasks) = m.max_capacity

\* C5 as stated: while the loop runs, every dispatched task that is in no
\* record's tasks list has had an outcome sent on results_outgoing
C5_NoLoss ==
    pc # "crashed" =>
        \A tid \in Dispatched : ~Outstanding(tid) => Outcomes(tid) >= 1

\* C6: at most one outcome (forwarded result or ManagerLost failure) is sent
\* for a task
C6_NoDuplicates == \A tid \in 1..task_counter : Outcomes(tid) <= 1

\* one task was reported lost with a manager that has registered again, and
\* another task's result was forwarded
C6_Witness ==
    \E t1, t2 \in Dispatched, manager_id \in Registered :
        /\ ManagerLostPackage(t1, manager_id, "host") \in BagToSet(results_outgoing)
        /\ ResultMessage(t2) \in BagToSet(results_outgoing)

\* C7: while the loop runs, idle_since of a record is None iff its tasks
\* list is non-empty
C7_IdleBookkeeping ==
    pc # "crashed" =>
        \A manager_id \in Registered :
            (ready_managers[manager_id].idle_since = NoneTime)
                <=> (ready_managers[manager_id].tasks # <<>>)

\* a record whose last task's result came in after its registration: it is
\* idle since an instant later than the one it registered at
C7_Witness ==
    \E manager_id \in Registered :
        LET m == ready_managers[manager_id]
        IN  /\ m.tasks = <<>>
            /\ m.idle_since > m.last_heartbeat
            /\ ResultMessage(1) \in BagToSet(results_outgoing)

\* the (python major.minor, parsl version) pair of meta differs from the
\* Interchange's own
Mismatched(meta) ==
    <<meta.python_v[1], meta.python_v[2], meta.parsl_v>>
        # <<IxPythonV[1], IxPythonV[2], IxParslV>>

\* C8: a mismatched registration leaves the registry, the block history and
\* the interesting set as they were, sends exactly one failure with task_id -1
\* on results_outgoing and sets the kill-flag
C8_MismatchedRegistration ==
    [][pc = "manager_sock" =>
       \A manager_id \in ManagerIds, meta \in RegistrationMetas :
          (Mismatched(meta) /\ RegistrationStep(manager_id, meta)) =>
              /\ UNCHANGED <<ready_managers, connected_block_history,
                             interesting_managers>>
              /\ results_outgoing' = results_outgoing (+) SetToBag({VersionMismatchPackage})
              /\ \A f \in BagToSet(results_outgoing') \ BagToSet(results_outgoing) :
                    f.task_id = -1
              /\ kill_event']_vars

\* a mismatched registration was handled while a manager was registered
C8_Witness ==
    /\ pc = "expire_bad"
    /\ kill_event
    /\ Registered # {}
    /\ Outcomes(-1) = 1

\* C9: once the kill-flag is set the loop neither polls nor reads a message
\* again; bad-manager expiry, drained expiry and dispatch run in that order,
\* then the loop exits; and it always exits
C9_KillTerminates ==
    /\ [](kill_event =>
             pc \in {"expire_bad", "expire_drained", "tasks_to_send", "exited"})
    /\ [][kill_event =>
             /\ pc = "expire_bad" => pc' \in {"expire_bad", "expire_drained"}
             /\ pc = "expire_drained" => pc' \in {"expire_drained", "tasks_to_send"}
             /\ pc = "tasks_to_send" => pc' \in {"tasks_to_send", "exited"}
             /\ pc = "exited" => pc' = "exited"]_vars
    /\ (kill_event ~> pc = "exited")

\* the loop has exited, and the dispatch step of its last iteration sent tasks
C9_Witness ==
    /\ pc = "exited"
    /\ kill_event
    /\ SentTasks(manager_sock_sent) # <<>>

RECURSIVE TasksHeld(_, _)
\* the number of entries in the tasks lists of the managers ids
TasksHeld(ids, managers) ==
    IF ids = {}
    THEN 0
    ELSE LET manager_id == CHOOSE x \in ids : TRUE
         IN  Len(managers[manager_id].tasks) + TasksHeld(ids \ {manager_id}, managers)

\* C10: the bad-manager expiry step leaves no record whose last_heartbeat is
\* older than heartbeat_threshold; for each record it removes it sends one
\* ManagerLost failure per entry of the tasks list and nothing else, and the
\* identity is in neither the registry nor the interesting set
C10_BadManagerExpiry ==
    [][(pc = "expire_bad" /\ pc' # pc) =>
          LET removed == Registered \ DOMAIN ready_managers'
          IN  /\ \A manager_id \in DOMAIN ready_managers' :
                    ~(now' - ready_managers'[manager_id].last_heartbeat
                          > heartbeat_threshold)
              /\ \A manager_id \in removed :
                    /\ manager_id \notin interesting_managers'
                    /\ \A i \in 1..Len(ready_managers[manager_id].tasks) :
                          LET lost == ManagerLostPackage(ready_managers[manager_id].tasks[i],
                                                        manager_id,
                                                        ready_managers[manager_id].hostname)
                          IN  CopiesIn(lost, results_outgoing')
                                  = CopiesIn(lost, results_outgoing) + 1
              /\ BagCardinality(results_outgoing')
                    = BagCardinality(results_outgoing) + TasksHeld(removed, ready_managers)]_vars

\* the expiry step has just removed a manager that held a task, and left
\* another one registered
C10_Witness ==
    /\ pc = "expire_drained"
    /\ Registered # {}
    /\ \E manager_id \in ManagerIds \ Registered, tid \in Dispatched :
          /\ ManagerLostPackage(tid, manager_id, "host") \in BagToSet(results_outgoing)
          /\ Outcomes(tid) = 1
          /\ ~Outstanding(tid)

(***************************************************************************)
(* Properties of the expiry of drained managers and of message handling.   *)
(***************************************************************************)
\* C11: after every drained-expiry pass no record that is draining and has
\* an empty tasks list remains in the registry, whether or not the identity
\* was in the interesting set when the pass ran
C11_NoDrainedRecordRemains ==
    [][(pc = "expire_drained" /\ pc' = "tasks_to_send") =>
          \A manager_id \in DOMAIN ready_managers' :
              ~IsDrained(ready_managers'[manager_id])]_vars

\* C12: the loop ends only through the kill-flag, which only a registration
\* with mismatched versions sets: no other message received ends it
C12_OnlyMismatchTerminates ==
    pc \in {"exited", "crashed"} => kill_event

(***************************************************************************)
(* Properties of the block history (checked under BlockSpec).              *)
(***************************************************************************)
IsPrefix(a, b) == Len(a) <= Len(b) /\ \A i \in 1..Len(a) : a[i] = b[i]

\* C13: across any step connected_block_history keeps its previous value as
\* a prefix; an accepted registration, of a new or of a registered identity,
\* appends the registering manager's block_id and nothing else; every other
\* step, a rejected registration included, leaves it unchanged
C13_BlockHistoryAppendOnly ==
    [][/\ IsPrefix(connected_block_history, connected_block_history')
       /\ pc = "manager_sock" =>
             \A manager_id \in load.manager_ids, meta \in RegistrationMetas :
                 RegistrationStep(manager_id, meta) =>
                     connected_block_history'
                         = IF Mismatched(meta)
                           THEN connected_block_history
                           ELSE Append(connected_block_history, meta.block_id)
       /\ connected_block_history' # connected_block_history =>
             \E manager_id \in load.manager_ids, meta \in RegistrationMetas :
                 ~Mismatched(meta) /\ RegistrationStep(manager_id, meta)]_vars

\* the same identity has registered twice, from two blocks
C13_Witness ==
    /\ connected_block_history = <<"b2", "b1">>
    /\ DOMAIN ready_managers = {"m1"}
    /\ ready_managers["m1"].block_id = "b1"

(***************************************************************************)
(* Properties of the commands (checked under ClientSpec).                  *)
(***************************************************************************)
Introspection ==
    {<<"CONNECTED_BLOCKS">>, <<"WORKERS">>, <<"MANAGERS">>, <<"MANAGERS_PACKAGES">>,
     <<"WORKER_BINDS">>}

\* a MANAGERS reply without its idle_duration fields
WithoutIdleDuration(r) == {[d EXCEPT !.idle_duration = 0] : d \in r[2]}

\* C14 as stated: an introspection command leaves the registry, the queue,
\* the interesting set and the block history unchanged, and when it repeats
\* the last request with none of them changed in between, the reply equals
\* the reply to that request
C14_CommandIdempotence ==
    [][pc = "command" =>
          \A command_req \in Introspection :
              CommandStep(command_req) =>
                  /\ UNCHANGED <<ready_managers, pending_task_queue,
                                 interesting_managers, connected_block_history>>
                  /\ last_command.req = command_req => reply' = last_command.reply]_vars

\* C14 amended: as C14, but two replies to MANAGERS are equal in their
\* idle_duration fields only when the clock reads the same at both requests;
\* in every other field, and for every other introspection command, they
\* are equal
C14_IdempotentUpToIdleDuration ==
    [][pc = "command" =>
          \A command_req \in Introspection :
              CommandStep(command_req) =>
                  /\ UNCHANGED <<ready_managers, pending_task_queue,
                                 interesting_managers, connected_block_history>>
                  /\ last_command.req = command_req =>
                        IF command_req = <<"MANAGERS">> /\ last_command.at # now
                        THEN WithoutIdleDuration(reply')
                                 = WithoutIdleDuration(last_command.reply)
                        ELSE reply' = last_command.reply]_vars

\* MANAGERS has been asked twice in a row of a registry with two managers,
\* one of them idle for some time and one of them busy
C14_Witness ==
    /\ pc = "task_incoming"
    /\ last_command.req = <<"MANAGERS">>
    /\ last_command.again
    /\ reply = last_command.reply
    /\ \E d \in reply[2] : d.idle_duration > 0
    /\ \E d \in reply[2] : d.tasks > 0

(***************************************************************************)
(* Properties of single messages (checked under Spec).                     *)
(***************************************************************************)
\* C15: HOLD_WORKER for a registered identity sets active of its record to
\* FALSE and changes nothing else in that record or in any other, for an
\* identity that is not registered it changes nothing, and the reply is
\* None in both cases; active goes from FALSE to TRUE on no record: an
\* identity is active again only through a registration, which makes a new
\* record
C15_HoldWorker ==
    [][/\ pc = "command" =>
             \A manager_id \in ManagerIds :
                 CommandStep(<<"HOLD_WORKER", manager_id>>) =>
                     /\ reply' = PyNone
                     /\ DOMAIN ready_managers' = Registered
                     /\ \A other \in Registered :
                           ready_managers'[other]
                               = IF other = manager_id
                                 THEN [ready_managers[other] EXCEPT !.active = FALSE]
                                 ELSE ready_managers[other]
                     /\ UNCHANGED <<pending_task_queue, interesting_managers,
                                    connected_block_history, results_outgoing,
                                    kill_event, count>>
                     /\ manager_sock_sent' = <<>>
       /\ \A manager_id \in Registered \cap DOMAIN ready_managers' :
             (~ready_managers[manager_id].active /\ ready_managers'[manager_id].active)
                 => \E meta \in RegistrationMetas : RegistrationStep(manager_id, meta)]_vars

\* a manager has just been held while it had a task outstanding, next to
\* another manager that is still active
C15_Witness ==
    /\ pc = "task_incoming"
    /\ reply = PyNone
    /\ \E manager_id \in Registered, other \in Registered :
          /\ ~ready_managers[manager_id].active
          /\ ready_managers[manager_id].tasks # <<>>
          /\ ~ready_managers[manager_id].draining
          /\ ready_managers[other].active

\* C16: a heartbeat from a registered manager sets last_heartbeat of its
\* record to the current time, sends one HEARTBEAT_CODE frame on
\* manager_router, addressed to the sender, and changes nothing else
C16_HeartbeatEffect ==
    [][pc = "manager_sock" =>
          \A manager_id \in Registered :
              MessageStep(manager_id, "heartbeat", <<>>) =>
                  /\ ready_managers'
                         = [ready_managers EXCEPT ![manager_id].last_heartbeat = now]
                  /\ manager_sock_sent' = <<RouterFrame(manager_id, PKL_HEARTBEAT_CODE)>>
                  /\ UNCHANGED <<pending_task_queue, interesting_managers,
                                 connected_block_history, results_outgoing,
                                 kill_event, count>>
                  /\ pc' = "expire_bad"]_vars

\* a manager that holds a task and is out of the interesting set has just
\* been answered a heartbeat, later than its registration
C16_Witness ==
    /\ pc = "expire_bad"
    /\ now > 0
    /\ \E manager_id \in Registered \ interesting_managers :
          /\ manager_sock_sent = <<RouterFrame(manager_id, PKL_HEARTBEAT_CODE)>>
          /\ ready_managers[manager_id].last_heartbeat = now
          /\ ready_managers[manager_id].tasks # <<>>

\* C17: a heartbeat, drain or result message from an identity that is not in
\* the registry changes no state and sends nothing: no HEARTBEAT_CODE frame,
\* nothing on results_outgoing, no record, the interesting set as it was
C17_UnknownSenderIgnored ==
    [][pc = "manager_sock" =>
          \A manager_id \in ManagerIds \ Registered :
              \A mtype \in {"heartbeat", "drain", "result"} :
                  \A msgs \in MessageBodies(mtype) :
                      MessageStep(manager_id, mtype, msgs) =>
                          /\ UNCHANGED <<ready_managers, pending_task_queue,
                                         interesting_managers, connected_block_history,
                                         results_outgoing, kill_event, count>>
                          /\ manager_sock_sent' = <<>>
                          /\ pc' = "expire_bad"]_vars

\* a message has just been handled and nothing was sent, at a time when one
\* identity has been expired with a task and the other is registered
C17_Witness ==
    /\ pc = "expire_bad"
    /\ manager_sock_sent = <<>>
    /\ Registered # {}
    /\ \E manager_id \in ManagerIds \ Registered, tid \in Dispatched :
          ManagerLostPackage(tid, manager_id, "host") \in BagToSet(results_outgoing)

(***************************************************************************)
(* Properties of dispatch and of the two expiry steps (checked under Spec).*)
(***************************************************************************)
IsTaskBatch(frame) == frame.payload.pickled = "list"

Smaller(a, b) == IF a <= b THEN a ELSE b

\* C18: a task batch goes only to an identity that is then registered,
\* active, not draining and has max_capacity - len(tasks) > 0; the batch is
\* not empty, it holds as many tasks as the smaller of that capacity and the
\* length of the queue when the manager's turn comes, and the task_ids of
\* the batch, no others, are appended to the tasks of the record (the frames
\* of a step are those in manager_sock_sent after it, unless only the clock
\* moved)
C18_DispatchEligibility ==
    [][/\ \A i \in DOMAIN manager_sock_sent' :
             (now' = now /\ IsTaskBatch(manager_sock_sent'[i])) =>
                 LET manager_id == manager_sock_sent'[i].to
                     batch == manager_sock_sent'[i].payload.list
                     earlier == SentTasks(SubSeq(manager_sock_sent', 1, i - 1))
                 IN  /\ pc = "tasks_to_send"
                     /\ manager_id \in Registered
                     /\ \A j \in DOMAIN manager_sock_sent' :
                           manager_sock_sent'[j].to = manager_id => j = i
                     /\ LET m == ready_managers[manager_id]
                            real_capacity == m.max_capacity - Len(m.tasks)
                        IN  /\ m.active
                            /\ ~m.draining
                            /\ real_capacity > 0
                            /\ batch # <<>>
                            /\ Len(batch)
                                  = Smaller(real_capacity,
                                            Len(pending_task_queue) - Len(earlier))
                            /\ ready_managers'[manager_id].tasks
                                  = m.tasks \o [k \in 1..Len(batch) |-> batch[k].task_id]
       /\ pc = "tasks_to_send" =>
             \A manager_id \in Registered :
                 (\A i \in DOMAIN manager_sock_sent' :
                      manager_sock_sent'[i].to # manager_id)
                     => ready_managers'[manager_id].tasks
                            = ready_managers[manager_id].tasks]_vars

\* a dispatch pass has just sent the one task of the queue to a manager with
\* room for two, and none to a held manager that has room as well
C18_Witness ==
    /\ pc = "poll"
    /\ pending_task_queue = <<>>
    /\ \E manager_id \in Registered, other \in Registered :
          /\ Len(manager_sock_sent) = 1
          /\ IsTaskBatch(manager_sock_sent[1])
          /\ manager_sock_sent[1].to = manager_id
          /\ Len(manager_sock_sent[1].payload.list) = 1
          /\ ready_managers[manager_id].max_capacity = 2
          /\ ~ready_managers[other].active
          /\ ready_managers[other].tasks = <<>>
          /\ ready_managers[other].max_capacity > 0

\* C19: in every state the interesting set is a subset of the keys of the
\* registry, so the lookups of expire_drained_managers and of
\* process_tasks_to_send find their record and neither step raises; every
\* step that takes identities out of the registry takes them out of the
\* interesting set
C19_InterestingSubsetOfRegistry ==
    /\ [](interesting_managers \subseteq Registered)
    /\ [][/\ pc \in {"expire_drained", "tasks_to_send"} => pc' # "crashed"
          /\ (Registered \ DOMAIN ready_managers') \cap interesting_managers' = {}]_vars

\* a drained manager has just been sent DRAINED_CODE and has left the
\* registry, while another manager stays registered and interesting
C19_Witness ==
    /\ pc = "tasks_to_send"
    /\ interesting_managers # {}
    /\ \E manager_id \in ManagerIds \ Registered :
          manager_sock_sent = <<RouterFrame(manager_id, PKL_DRAINED_CODE)>>

\* C20: a manager that at the bad-manager expiry is both past
\* heartbeat_threshold and draining is removed by that step, with one
\* ManagerLost failure for each of its tasks and no frame to it; a
\* DRAINED_CODE frame is sent only by the drained expiry and only to an
\* identity that has a drained record in the registry then, so the removed
\* manager gets none, in that iteration or later
C20_HeartbeatExpiryFirst ==
    [][/\ (pc = "expire_bad" /\ pc' = "expire_drained") =>
             \A manager_id \in Registered :
                 LET m == ready_managers[manager_id]
                 IN  (HeartbeatMissed(m, now) /\ m.draining) =>
                         /\ manager_id \notin DOMAIN ready_managers'
                         /\ manager_id \notin interesting_managers'
                         /\ manager_sock_sent' = <<>>
                         /\ \A i \in 1..Len(m.tasks) :
                               LET lost == ManagerLostPackage(m.tasks[i], manager_id,
                                                              m.hostname)
                               IN  CopiesIn(lost, results_outgoing')
                                       = CopiesIn(lost, results_outgoing) + 1
       /\ \A i \in DOMAIN manager_sock_sent' :
             (now' = now /\ manager_sock_sent'[i].payload = PKL_DRAINED_CODE) =>
                 /\ pc = "expire_drained"
                 /\ manager_sock_sent'[i].to \in Registered
                 /\ IsDrained(ready_managers[manager_sock_sent'[i].to])
                 /\ manager_sock_sent'[i].to \notin DOMAIN ready_managers']_vars

\* the bad-manager expiry is about to run with an interesting manager that
\* has missed its heartbeat and is drained
C20_Witness ==
    /\ pc = "expire_bad"
    /\ \E manager_id \in interesting_managers :
          /\ HeartbeatMissed(ready_managers[manager_id], now)
          /\ IsDrained(ready_managers[manager_id])

(***************************************************************************)
(* Properties of one iteration (checked under CreditSpec).                 *)
(***************************************************************************)
\* a manager that may be given tasks
Eligible(m) == m.active /\ ~m.draining /\ Len(m.tasks) < m.max_capacity

\* the tasks the eligible managers among ids have room for
RECURSIVE FreeCapacity(_, _)
FreeCapacity(ids, managers) ==
    IF ids = {}
    THEN 0
    ELSE LET manager_id == CHOOSE x \in ids : TRUE
             m == managers[manager_id]
         IN  (IF Eligible(m) THEN m.max_capacity - Len(m.tasks) ELSE 0)
                 + FreeCapacity(ids \ {manager_id}, managers)

\* manager_id is sent a task batch by the step
SentBatch(manager_id) ==
    \E i \in DOMAIN manager_sock_sent' :
        IsTaskBatch(manager_sock_sent'[i]) /\ manager_sock_sent'[i].to = manager_id

\* the task taken in by this iteration is dispatched by its dispatch step
\* when the interesting managers have room for the whole queue
TakenInIsDispatched ==
    (/\ this_iteration.took # 0
     /\ FreeCapacity(interesting_managers, ready_managers) >= Len(pending_task_queue))
        => \E i \in DOMAIN SentTasks(manager_sock_sent') :
               SentTasks(manager_sock_sent')[i].task_id = this_iteration.took

\* C21 as stated: a saturated manager whose result batch took a task off its
\* record in this iteration, and that is registered, active and not draining
\* at the dispatch step, is sent a task batch by that step when the queue is
\* not empty there; and a task taken in by this iteration is dispatched by it
C21_SameIterationCredit ==
    [][(pc = "tasks_to_send" /\ pc' # pc) =>
          /\ \A manager_id \in this_iteration.credited \cap Registered :
                (/\ ready_managers[manager_id].active
                 /\ ~ready_managers[manager_id].draining
                 /\ pending_task_queue # <<>>)
                    => SentBatch(manager_id)
          /\ TakenInIsDispatched]_vars

\* C21 amended: as C21, but the manager is sent a batch unless the managers
\* served before it in the dispatch pass take every pending task
C21_CreditUnlessQueueTaken ==
    [][(pc = "tasks_to_send" /\ pc' # pc) =>
          /\ \A manager_id \in this_iteration.credited \cap Registered :
                (/\ ready_managers[manager_id].active
                 /\ ~ready_managers[manager_id].draining
                 /\ pending_task_queue # <<>>)
                    => (SentBatch(manager_id) \/ pending_task_queue' = <<>>)
          /\ TakenInIsDispatched]_vars

\* the dispatch step has just sent, to a manager credited by a result batch
\* of this iteration, the task that this iteration took in
C21_Witness ==
    /\ pc = "poll"
    /\ Len(manager_sock_sent) = 1
    /\ IsTaskBatch(manager_sock_sent[1])
    /\ manager_sock_sent[1].to \in this_iteration.credited
    /\ manager_sock_sent[1].payload.list[1].task_id = this_iteration.took

(***************************************************************************)
(* Further properties of single messages and of the expiry steps (checked  *)
(* under Spec).                                                            *)
(***************************************************************************)
\* C22: last_heartbeat of a record changes only by a heartbeat message of
\* its manager (a registration makes a new record); result and drain
\* messages leave it as it is; so the bad-manager expiry removes every
\* manager whose last_heartbeat is older than heartbeat_threshold, whatever
\* results or drain messages it has sent since
C22_OnlyHeartbeatsRefresh ==
    [][/\ \A manager_id \in Registered \cap DOMAIN ready_managers' :
             ready_managers'[manager_id].last_heartbeat
                     # ready_managers[manager_id].last_heartbeat
                 => /\ \/ MessageStep(manager_id, "heartbeat", <<>>)
                       \/ \E meta \in RegistrationMetas :
                              RegistrationStep(manager_id, meta)
                    /\ ~MessageStep(manager_id, "drain", <<>>)
                    /\ \A msgs \in ResultBatches :
                          ~MessageStep(manager_id, "result", msgs)
       /\ (pc = "expire_bad" /\ pc' # pc) =>
             \A manager_id \in Registered :
                 now - ready_managers[manager_id].last_heartbeat > heartbeat_threshold
                     => manager_id \notin DOMAIN ready_managers']_vars

\* the one manager that ever registered has had a result forwarded, and has
\* then been expired with another task outstanding
C22_Witness ==
    /\ pc = "expire_drained"
    /\ Len(connected_block_history) = 1
    /\ Registered = {}
    /\ \E manager_id \in ManagerIds, tid \in Dispatched, other \in Dispatched :
          /\ ResultMessage(tid) \in BagToSet(results_outgoing)
          /\ ManagerLostPackage(other, manager_id, "host") \in BagToSet(results_outgoing)

\* C23: a DRAINED_CODE frame goes only to an identity whose record is then
\* draining with an empty tasks list, and the step that sends it takes the
\* identity out of the registry and out of the interesting set and sends it
\* no second one; so a record gets at most one DRAINED_CODE, and none while
\* it has tasks outstanding
C23_DrainedCodeOnlyWhenDrained ==
    [][\A i \in DOMAIN manager_sock_sent' :
          (now' = now /\ manager_sock_sent'[i].payload = PKL_DRAINED_CODE) =>
              LET manager_id == manager_sock_sent'[i].to
              IN  /\ manager_id \in Registered
                  /\ ready_managers[manager_id].draining
                  /\ ready_managers[manager_id].tasks = <<>>
                  /\ manager_id \notin DOMAIN ready_managers'
                  /\ manager_id \notin interesting_managers'
                  /\ \A j \in DOMAIN manager_sock_sent' :
                        manager_sock_sent'[j] = manager_sock_sent'[i] => j = i]_vars

\* a manager that had a task, returned its result and asked to drain has
\* just been sent DRAINED_CODE, the only registration of the run being its own
C23_Witness ==
    /\ pc = "tasks_to_send"
    /\ Len(connected_block_history) = 1
    /\ Registered = {}
    /\ \E manager_id \in ManagerIds, tid \in Dispatched :
          /\ manager_sock_sent = <<RouterFrame(manager_id, PKL_DRAINED_CODE)>>
          /\ ResultMessage(tid) \in BagToSet(results_outgoing)

\* the entries of the list s that equal x
Count(s, x) == Cardinality({i \in DOMAIN s : s[i] = x})

\* the result sub-messages of the batch msgs that name the task tid
CountResults(msgs, tid) ==
    Cardinality({i \in DOMAIN msgs : msgs[i].type = "result" /\ msgs[i].task_id = tid})

\* the results of the batch msgs that are to be forwarded for a manager with
\* the tasks list tasks: as many for a task as the batch names it, and not
\* more than the list holds it
ToForward(tasks, msgs, tid) == Smaller(Count(tasks, tid), CountResults(msgs, tid))

\* C24: of a result batch from a registered manager the result sub-messages
\* whose task_id is in the tasks list of the manager when they are processed
\* are forwarded on results_outgoing, and no others; each of them takes one
\* occurrence of its task_id off the list; the other sub-messages change
\* nothing; when nothing is forwarded nothing is sent on results_outgoing
\* and the interesting set stays as it is
C24_ResultForwarding ==
    [][pc = "manager_sock" =>
          \A manager_id \in Registered :
              \A msgs \in ResultBatches :
                  MessageStep(manager_id, "result", msgs) =>
                      LET tasks == ready_managers[manager_id].tasks
                          tids == {tid \in 1..load.max_tasks :
                                      ToForward(tasks, msgs, tid) > 0}
                          forwarded == [r \in {ResultMessage(tid) : tid \in tids} |->
                                           ToForward(tasks, msgs, r.task_id)]
                      IN  /\ results_outgoing' = results_outgoing (+) forwarded
                          /\ \A tid \in 1..load.max_tasks :
                                Count(ready_managers'[manager_id].tasks, tid)
                                    = Count(tasks, tid) - ToForward(tasks, msgs, tid)
                          /\ tids = {} => interesting_managers' = interesting_managers]_vars

(***************************************************************************)
(* Work conservation (checked under Spec, whose selector lists every       *)
(* interesting manager).                                                   *)
(***************************************************************************)
\* C25: when an iteration ends, the pending queue is empty or no registered
\* manager is active, not draining and below its max_capacity; and when the
\* dispatch step starts every such manager is in the interesting set
C25_WorkConservation ==
    /\ pc \in {"poll", "exited"} =>
          ~(/\ pending_task_queue # <<>>
            /\ \E manager_id \in Registered : Eligible(ready_managers[manager_id]))
    /\ pc = "tasks_to_send" =>
          \A manager_id \in Registered :
              Eligible(ready_managers[manager_id]) => manager_id \in interesting_managers

\* an iteration has ended with a task pending: one manager is full, and the
\* other one has room but is held
C25_Witness ==
    /\ pc = "poll"
    /\ pending_task_queue # <<>>
    /\ \E manager_id \in Registered, other \in Registered :
          /\ ready_managers[manager_id].active
          /\ ~ready_managers[manager_id].draining
          /\ ready_managers[manager_id].max_capacity > 0
          /\ Len(ready_managers[manager_id].tasks) = ready_managers[manager_id].max_capacity
          /\ ~ready_managers[other].active
          /\ Len(ready_managers[other].tasks) < ready_managers[other].max_capacity

====
